---------------------------- MODULE Spec2Model ----------------------------
(***************************************************************************)
(* A model of scripts/python/ingest_disney_dataset.py.                     *)
(*                                                                         *)
(* The script lists the .obj files of the dataset (get_asset_objs), and    *)
(* for each of them opens a new Maya scene and imports the file            *)
(* (import_asset_obj), rebuilds the transform hierarchy that the .hier     *)
(* sidecar describes (rebuild_asset_hierarchy) and exports the result as   *)
(* Alembic (export_asset_abc).                                             *)
(*                                                                         *)
(* Python strings are sequences of one-character strings, so that split,   *)
(* replace, fnmatch and string comparison are computed as Python computes  *)
(* them.  The Maya scene is the set of its DAG nodes, each with its parent *)
(* (World for a top-level node); node names are unique in the scene,       *)
(* because every node is imported or created at world level under a name   *)
(* that no node of the scene has.                                          *)
(***************************************************************************)
EXTENDS Integers, Sequences, FiniteSets, TLC

VARIABLES
    fs,            \* the obj directory: asset name -> [objs, archives]
    abc_dirs,      \* directories made by os.makedirs
    pc,            \* position of the script
    assets,        \* get_asset_objs: the result of os.listdir(obj_dir)
    asset_i,       \* get_asset_objs: number of assets already globbed
    obj_files,     \* the list get_asset_objs builds, then the module's list
    file_i,        \* module loop: index of the current obj_file (0: none yet)
    scene,         \* Maya scene: node name -> [parent, origin, link]
    imported,      \* names of the nodes that importFile made for obj_file
    hier_data,     \* rebuild: the mapping loaded from the .hier file
    todo,          \* rebuild: keys of hier_data not yet iterated
    model,         \* rebuild: key of the current entry
    hier_split,    \* rebuild: the split path of the current entry
    index,         \* rebuild: position of the inner loop (0-based, as in Python)
    root_par_node, \* rebuild: local variable root_par_node, then root_node
    entry_scene,   \* the scene as it was when the current entry started
    entries_done,  \* keys of the entries whose iteration completed
    reported,      \* keys for which 'Model is missing!' was printed
    calls,         \* the calls the module loop has completed, in order
    abc_jobs       \* the invocations of pm.AbcExport, in order

vars == <<fs, abc_dirs, pc, assets, asset_i, obj_files, file_i, scene,
          imported, hier_data, todo, model, hier_split, index,
          root_par_node, entry_scene, entries_done, reported, calls,
          abc_jobs>>

-----------------------------------------------------------------------------
(* Bounds of the model.                                                    *)

\* Longest path '|e1|...|en' of a .hier entry.
MaxDepth == 2

\* Largest number of entries of the obj directory.
MaxAssets == 2

-----------------------------------------------------------------------------
(* Strings.                                                                *)

\* The characters of the model, in ASCII order.
Alphabet ==
    <<"*", ".", "/", "?", "[", "_", "a", "b", "c", "d", "e", "h", "i", "j",
      "k", "l", "m", "n", "o", "p", "r", "s", "t", "v", "w", "x", "y", "z",
      "|">>

Ord == [c \in {Alphabet[i] : i \in 1..Len(Alphabet)} |->
            CHOOSE i \in 1..Len(Alphabet) : Alphabet[i] = c]

\* s < t for Python byte strings.
RECURSIVE StrLess(_, _)
StrLess(s, t) ==
    IF t = <<>> THEN FALSE
    ELSE IF s = <<>> THEN TRUE
    ELSE IF s[1] # t[1] THEN Ord[s[1]] < Ord[t[1]]
    ELSE StrLess(Tail(s), Tail(t))

StartsWith(s, p) ==
    /\ Len(p) <= Len(s)
    /\ SubSeq(s, 1, Len(p)) = p

\* str.replace(old, new): every non-overlapping occurrence, left to right.
RECURSIVE Replace(_, _, _)
Replace(s, old, new) ==
    IF s = <<>> THEN <<>>
    ELSE IF StartsWith(s, old)
         THEN new \o Replace(SubSeq(s, Len(old) + 1, Len(s)), old, new)
         ELSE <<s[1]>> \o Replace(Tail(s), old, new)

\* str.split(sep) for a one-character separator: the list of the pieces,
\* empty pieces included.
RECURSIVE Split(_, _)
Split(s, sep) ==
    IF \A i \in 1..Len(s) : s[i] # sep THEN <<s>>
    ELSE LET k == CHOOSE i \in 1..Len(s) :
                      /\ s[i] = sep
                      /\ \A j \in 1..(i - 1) : s[j] # sep
         IN  <<SubSeq(s, 1, k - 1)>> \o Split(SubSeq(s, k + 1, Len(s)), sep)

\* os.path.join(a, b) for a relative b.
PathJoin(a, b) == a \o <<"/">> \o b

\* Position of the last "/" of a path (0 if there is none).
LastSlash(p) ==
    IF \E i \in 1..Len(p) : p[i] = "/"
    THEN CHOOSE i \in 1..Len(p) :
             /\ p[i] = "/"
             /\ \A j \in (i + 1)..Len(p) : p[j] # "/"
    ELSE 0

\* os.path.dirname and os.path.basename of a path below the root directory.
Dirname(p) == SubSeq(p, 1, LastSlash(p) - 1)
Basename(p) == SubSeq(p, LastSlash(p) + 1, Len(p))

\* fnmatch.fnmatch(name, pat) for patterns made of '*', '?' and literals.
RECURSIVE Fnmatch(_, _)
Fnmatch(name, pat) ==
    IF pat = <<>> THEN name = <<>>
    ELSE IF pat[1] = "*"
         THEN \/ Fnmatch(name, Tail(pat))
              \/ name # <<>> /\ Fnmatch(Tail(name), pat)
    ELSE IF name = <<>> THEN FALSE
    ELSE IF pat[1] = "?" THEN Fnmatch(Tail(name), Tail(pat))
    ELSE name[1] = pat[1] /\ Fnmatch(Tail(name), Tail(pat))

\* glob.has_magic
HasMagic(s) == \E i \in 1..Len(s) : s[i] \in {"*", "?", "["}

\* sorted(): insertion of each element of the list into a sorted list.
RECURSIVE Insert(_, _)
Insert(x, sorted) ==
    IF sorted = <<>> THEN <<x>>
    ELSE IF StrLess(x, sorted[1]) THEN <<x>> \o sorted
    ELSE <<sorted[1]>> \o Insert(x, Tail(sorted))

RECURSIVE Sorted(_)
Sorted(list) ==
    IF list = <<>> THEN <<>>
    ELSE Insert(list[1], Sorted(Tail(list)))

\* The elements of a set, listed in some order.
RECURSIVE ListOf(_)
ListOf(S) ==
    IF S = {} THEN <<>>
    ELSE LET x == CHOOSE y \in S : TRUE
         IN  <<x>> \o ListOf(S \ {x})

\* The lists that hold every element of S once.
Orderings(S) ==
    {q \in [1..Cardinality(S) -> S] : \A x \in S : \E i \in DOMAIN q : q[i] = x}

-----------------------------------------------------------------------------
(* The dataset directory.                                                  *)

root_dir ==
    <<"/", "h", "o", "m", "e", "/", "s", "s", "h", "r", "e", "s", "t", "h",
      "a", "/", "w", "o", "r", "k", "s", "p", "a", "c", "e", "/", "l", "i",
      "b", "r", "a", "r", "y", "/", "d", "i", "s", "n", "e", "y", "_", "d",
      "a", "t", "a", "s", "e", "t", "s", "/", "i", "s", "l", "a", "n", "d">>

obj_dir == PathJoin(root_dir, <<"o", "b", "j">>)

Archives == <<"a", "r", "c", "h", "i", "v", "e", "s">>
ObjPattern == <<"*", ".", "o", "b", "j">>

\* Names an entry of the obj directory may have: two plain names and one
\* that holds a glob wildcard.
AssetNames == {<<"a">>, <<"b">>, <<"?">>}

\* Names a file of an asset directory may have.
FileNames == {<<"a", ".", "o", "b", "j">>,
              <<".", "h", ".", "o", "b", "j">>,
              <<"n", ".", "t", "x", "t">>}

\* Names a file of an archives directory may have.
ArchiveNames == {<<"z", ".", "o", "b", "j">>}

\* An asset directory: its files and, when it has an archives directory,
\* the files of that.
AssetDirs ==
    {d \in [objs : SUBSET FileNames, has_archives : BOOLEAN,
            archives : SUBSET ArchiveNames] :
        ~d.has_archives => d.archives = {}}

\* The obj directories of the model: at most MaxAssets entries.
FileSystems ==
    UNION {[A -> AssetDirs] :
              A \in {B \in SUBSET AssetNames : Cardinality(B) <= MaxAssets}}

\* The obj directories the whole script is run on: one asset, one or two
\* .obj files.
ScriptFileSystems ==
    {f \in FileSystems :
        /\ DOMAIN f = {<<"a">>}
        /\ f[<<"a">>].objs = {<<"a", ".", "o", "b", "j">>}
        /\ f[<<"a">>].has_archives => f[<<"a">>].archives = ArchiveNames}

\* glob.glob1(dirname, pattern) on a directory with the entries `names`:
\* the names that match, hidden names only for a pattern that starts with
\* a dot.
Glob1(names, pattern) ==
    {n \in names :
        /\ Fnmatch(n, pattern)
        /\ pattern[1] # "." => (n # <<>> /\ n[1] # ".")}

\* glob.iglob(asset_dir) as glob.iglob(pathname) calls it for its dirname:
\* the directory itself, or every entry of obj_dir its name matches when
\* the name holds a wildcard.
GlobAssetDir(f, asset) ==
    IF HasMagic(asset) THEN Glob1(DOMAIN f, asset) ELSE {asset}

\* glob.glob(os.path.join(asset_dir, '*.obj'))
GlobAssetObjs(f, asset) ==
    {PathJoin(PathJoin(obj_dir, d), n) :
        <<d, n>> \in {<<d, n>> \in (GlobAssetDir(f, asset) \cap DOMAIN f)
                                     \X FileNames :
                          n \in Glob1(f[d].objs, ObjPattern)}}

\* glob.glob(os.path.join(archive_dir, '*.obj'))
GlobArchiveObjs(f, asset) ==
    {PathJoin(PathJoin(PathJoin(obj_dir, d), Archives), n) :
        <<d, n>> \in {<<d, n>> \in (GlobAssetDir(f, asset) \cap DOMAIN f)
                                     \X ArchiveNames :
                          /\ f[d].has_archives
                          /\ n \in Glob1(f[d].archives, ObjPattern)}}

\* One iteration of the loop of get_asset_objs: what it appends to obj_files.
AssetObjFiles(f, asset) ==
    Sorted(ListOf(GlobAssetObjs(f, asset)) \o ListOf(GlobArchiveObjs(f, asset)))

-----------------------------------------------------------------------------
(* The Maya scene.                                                         *)

\* The parent of a top-level node, and the value of a name not yet bound.
World == <<>>
Unbound == <<>>

\* Names the nodes of a .hier path may have, the keys a .hier mapping may
\* have (the models), and the names importFile may give the nodes it makes:
\* a model, and a node named like an element of a path.
NodeNames == {<<"a">>, <<"b">>, <<"c">>}
ModelNames == {<<"m">>, <<"n">>}
ImportNames == {<<"m">>, <<"a">>}

\* The string '|e1|e2|...|en' of the names es.
RECURSIVE PipePath(_)
PipePath(es) ==
    IF es = <<>> THEN <<>>
    ELSE <<"|">> \o es[1] \o PipePath(Tail(es))

\* The path strings of a .hier file: one to MaxDepth names.
HierStrings ==
    {PipePath(es) : es \in UNION {[1..n -> NodeNames] : n \in 1..MaxDepth}}

\* The contents of a .hier file: model name -> path string.
HierMappings == UNION {[K -> HierStrings] : K \in SUBSET ModelNames}

\* pm.PyNode(name) finds a node.
Exists(s, name) == name \in DOMAIN s

\* A newFile that leaves the open scene as it is.
NewFileKeepsScene(s) == s

\* pm.newFile(f=True): a scene without nodes.
NewFile(s) == <<>>

\* pm.importFile: one top-level node for each group of the obj file.
ImportFile(s, names, file) ==
    [n \in DOMAIN s \cup names |->
        IF n \in names THEN [parent |-> World, origin |-> file, link |-> 0]
        ELSE s[n]]

\* pm.PyNode(name), and pm.createNode('transform', n=name) when it raises:
\* the scene with the node in it.
FindOrCreate(s, name, file) ==
    IF Exists(s, name) THEN s
    ELSE [n \in DOMAIN s \cup {name} |->
             IF n = name THEN [parent |-> World, origin |-> file, link |-> 0]
             ELSE s[n]]

\* a is n or above n, looking at most k parents up.
RECURSIVE IsAbove(_, _, _, _)
IsAbove(s, a, n, k) ==
    \/ a = n
    \/ /\ k > 0
       /\ n \in DOMAIN s
       /\ s[n].parent # World
       /\ IsAbove(s, a, s[n].parent, k - 1)

\* A setParent that refuses only to parent a node to itself.
SetParentRaisesOnSelfOnly(s, node, par) == node = par

\* node.setParent(par) raises: Maya parents no node to itself or to a node
\* below it.
SetParentRaises(s, node, par) ==
    IsAbove(s, node, par, Cardinality(DOMAIN s))

\* node.setParent(par), when it does not raise (nothing changes when par is
\* the parent already).
SetParent(s, node, par, file) ==
    IF s[node].parent = par THEN s
    ELSE [s EXCEPT ![node].parent = par, ![node].link = file]

\* node.fullPath(): the names from the top-level ancestor down to the node,
\* each after a '|'.
RECURSIVE FullPathUp(_, _, _)
FullPathUp(s, n, k) ==
    IF k = 0 \/ n \notin DOMAIN s \/ s[n].parent = World
    THEN <<"|">> \o n
    ELSE FullPathUp(s, s[n].parent, k - 1) \o <<"|">> \o n

FullPath(s, n) == FullPathUp(s, n, Cardinality(DOMAIN s))

-----------------------------------------------------------------------------
(* get_asset_objs                                                          *)

\* assets = os.listdir(obj_dir): the entries in any order.
GetAssetObjsListdir ==
    /\ pc = "get_asset_objs"
    /\ \E order \in Orderings(DOMAIN fs) : assets' = order
    /\ asset_i' = 0
    /\ obj_files' = <<>>
    /\ pc' = "glob"
    /\ UNCHANGED <<fs, abc_dirs, file_i, scene, imported, hier_data, todo,
                   model, hier_split, index, root_par_node, entry_scene,
                   entries_done, reported, calls, abc_jobs>>

\* One iteration of `for asset in assets`.
GetAssetObjsGlob ==
    /\ pc = "glob"
    /\ asset_i < Len(assets)
    /\ asset_i' = asset_i + 1
    /\ obj_files' = obj_files \o AssetObjFiles(fs, assets[asset_i + 1])
    /\ UNCHANGED <<fs, abc_dirs, pc, assets, file_i, scene, imported,
                   hier_data, todo, model, hier_split, index, root_par_node,
                   entry_scene, entries_done, reported, calls, abc_jobs>>

\* return obj_files
GetAssetObjsReturn ==
    /\ pc = "glob"
    /\ asset_i = Len(assets)
    /\ pc' = "loop"
    /\ UNCHANGED <<fs, abc_dirs, assets, asset_i, obj_files, file_i, scene,
                   imported, hier_data, todo, model, hier_split, index,
                   root_par_node, entry_scene, entries_done, reported, calls,
                   abc_jobs>>

-----------------------------------------------------------------------------
(* import_asset_obj                                                        *)

Call(op, file, ret) == [op |-> op, file |-> file, ret |-> ret]

\* The next iteration of `for obj_file in obj_files`, and its call of
\* import_asset_obj: a new scene, then the nodes of the obj file.  The
\* locals of the last call of rebuild_asset_hierarchy are gone.
ImportAssetObj ==
    /\ pc = "loop"
    /\ file_i < Len(obj_files)
    /\ file_i' = file_i + 1
    /\ \E names \in SUBSET ImportNames :
          /\ imported' = names
          /\ scene' = ImportFile(NewFile(scene), names, file_i')
    /\ calls' = Append(calls, Call("import_asset_obj", file_i',
                                   obj_files[file_i']))
    /\ hier_data' = <<>>
    /\ todo' = {}
    /\ model' = Unbound
    /\ hier_split' = <<>>
    /\ index' = 0
    /\ root_par_node' = Unbound
    /\ entry_scene' = <<>>
    /\ entries_done' = {}
    /\ reported' = {}
    /\ pc' = "rebuild"
    /\ UNCHANGED <<fs, abc_dirs, assets, asset_i, obj_files, abc_jobs>>

-----------------------------------------------------------------------------
(* rebuild_asset_hierarchy                                                 *)

\* hier_data = json.load(asset_hier)
RebuildLoad ==
    /\ pc = "rebuild"
    /\ \E h \in HierMappings :
          /\ hier_data' = h
          /\ todo' = DOMAIN h
    /\ pc' = "entry"
    /\ UNCHANGED <<fs, abc_dirs, assets, asset_i, obj_files, file_i, scene,
                   imported, model, hier_split, index, root_par_node,
                   entry_scene, entries_done, reported, calls, abc_jobs>>

\* open(hier_json, 'r') raises: the obj file has no .hier file beside it.
RebuildNoHier ==
    /\ pc = "rebuild"
    /\ pc' = "raised"
    /\ UNCHANGED <<fs, abc_dirs, assets, asset_i, obj_files, file_i, scene,
                   imported, hier_data, todo, model, hier_split, index,
                   root_par_node, entry_scene, entries_done, reported, calls,
                   abc_jobs>>

\* hier_split = hier.split('|'); hier_split.pop(0)
HierSplit(hier) == Tail(Split(hier, "|"))

\* The next iteration of `for model, hier in hier_data.iteritems()`, in
\* any order of the keys, up to the inner loop.  hier_split[-1] raises on
\* an empty list.
RebuildEntry ==
    /\ pc = "entry"
    /\ \E m \in todo :
          /\ model' = m
          /\ todo' = todo \ {m}
          /\ hier_split' = HierSplit(hier_data[m])
    /\ index' = Len(hier_split') - 1
    /\ entry_scene' = scene
    /\ pc' = IF hier_split' = <<>> THEN "raised" ELSE "elem"
    /\ UNCHANGED <<fs, abc_dirs, assets, asset_i, obj_files, file_i, scene,
                   imported, hier_data, root_par_node, entries_done,
                   reported, calls, abc_jobs>>

\* One iteration of the inner loop with index != 0: find or create the
\* element and its parent, then hier_elem_node.setParent(elem_par_node).
\* A setParent that raises ends the script.
RebuildElem ==
    /\ pc = "elem"
    /\ index >= 1
    /\ LET hier_elem == hier_split[index + 1]
           elem_par == hier_split[index]
           found == FindOrCreate(FindOrCreate(scene, hier_elem, file_i),
                                 elem_par, file_i)
       IN  IF SetParentRaises(found, hier_elem, elem_par)
           THEN /\ scene' = found
                /\ pc' = "raised"
                /\ index' = index
           ELSE /\ scene' = SetParent(found, hier_elem, elem_par, file_i)
                /\ pc' = pc
                /\ index' = index - 1
    /\ UNCHANGED <<fs, abc_dirs, assets, asset_i, obj_files, file_i,
                   imported, hier_data, todo, model, hier_split,
                   root_par_node, entry_scene, entries_done, reported, calls,
                   abc_jobs>>

\* The try block: both nodes are found and setParent does not raise.
ModelParented(s, m, model_par) ==
    /\ Exists(s, m)
    /\ Exists(s, model_par)
    /\ ~SetParentRaises(s, m, model_par)

\* The last iteration of the inner loop (index 0, nothing to do) and the
\* rest of the entry: parent the model under model_par or print 'Model is
\* missing!', then root_par_node = pm.PyNode(root_par), which raises when
\* no node has that name.
RebuildModel ==
    /\ pc = "elem"
    /\ index = 0
    /\ LET model_par == hier_split[Len(hier_split)]
           root_par == hier_split[1]
           ok == ModelParented(scene, model, model_par)
       IN  /\ scene' = IF ok THEN SetParent(scene, model, model_par, file_i)
                              ELSE scene
           /\ reported' = IF ok THEN reported ELSE reported \cup {model}
           /\ IF Exists(scene, root_par)
              THEN /\ root_par_node' = root_par
                   /\ entries_done' = entries_done \cup {model}
                   /\ pc' = "entry"
              ELSE /\ root_par_node' = root_par_node
                   /\ entries_done' = entries_done
                   /\ pc' = "raised"
    /\ UNCHANGED <<fs, abc_dirs, assets, asset_i, obj_files, file_i,
                   imported, hier_data, todo, model, hier_split, index,
                   entry_scene, calls, abc_jobs>>

\* return root_par_node: the name is unbound when hier_data was empty.
RebuildReturn ==
    /\ pc = "entry"
    /\ todo = {}
    /\ IF root_par_node = Unbound
       THEN /\ pc' = "raised"
            /\ calls' = calls
       ELSE /\ pc' = "export"
            /\ calls' = Append(calls, Call("rebuild_asset_hierarchy", file_i,
                                           root_par_node))
    /\ UNCHANGED <<fs, abc_dirs, assets, asset_i, obj_files, file_i, scene,
                   imported, hier_data, todo, model, hier_split, index,
                   root_par_node, entry_scene, entries_done, reported,
                   abc_jobs>>

-----------------------------------------------------------------------------
(* export_asset_abc                                                        *)

\* abc_file
AbcFile(obj_file) ==
    LET abc_dir == Replace(Dirname(obj_file), <<"o", "b", "j">>,
                           <<"a", "b", "c">>)
        abc_name == Replace(Basename(obj_file), <<".", "o", "b", "j">>,
                            <<".", "a", "b", "c">>)
    IN  PathJoin(abc_dir, abc_name)

\* The arguments with the name of the root node in place of its full path.
AbcArgsWithNodeName(root_node_name, abc_file) ==
    [flags |-> <<"-frameRange 1 1", "-uvWrite", "-worldSpace",
                 "-writeUVSets", "-dataFormat ogawa", "-root ", "-file ">>,
     root |-> LET es == Split(root_node_name, "|") IN es[Len(es)],
     file |-> abc_file]

\* abc_args: the flags as written, and the strings appended to the last
\* two of them.
AbcArgs(root_node_name, abc_file) ==
    [flags |-> <<"-frameRange 1 1", "-uvWrite", "-worldSpace",
                 "-writeUVSets", "-dataFormat ogawa", "-root ", "-file ">>,
     root |-> root_node_name,
     file |-> abc_file]

\* export_asset_abc(obj_file, root_node), and the print that ends the
\* iteration.
ExportAssetAbc ==
    /\ pc = "export"
    /\ LET obj_file == obj_files[file_i]
           abc_file == AbcFile(obj_file)
       IN  /\ abc_dirs' = abc_dirs \cup {Dirname(abc_file)}
           /\ abc_jobs' = Append(abc_jobs,
                                 AbcArgs(FullPath(scene, root_par_node),
                                         abc_file))
           /\ calls' = Append(calls, Call("export_asset_abc", file_i,
                                          abc_file))
    /\ pc' = "loop"
    /\ UNCHANGED <<fs, assets, asset_i, obj_files, file_i, scene, imported,
                   hier_data, todo, model, hier_split, index, root_par_node,
                   entry_scene, entries_done, reported>>

\* A loop that may end before the last file of the list.
FinishBeforeLastFile ==
    /\ pc = "loop"
    /\ pc' = "done"
    /\ UNCHANGED <<fs, abc_dirs, assets, asset_i, obj_files, file_i, scene,
                   imported, hier_data, todo, model, hier_split, index,
                   root_par_node, entry_scene, entries_done, reported, calls,
                   abc_jobs>>

\* The module loop has no file left.
Finish ==
    /\ pc = "loop"
    /\ file_i = Len(obj_files)
    /\ pc' = "done"
    /\ UNCHANGED <<fs, abc_dirs, assets, asset_i, obj_files, file_i, scene,
                   imported, hier_data, todo, model, hier_split, index,
                   root_par_node, entry_scene, entries_done, reported, calls,
                   abc_jobs>>

-----------------------------------------------------------------------------
(* Specifications.                                                         *)

InitWith(f) ==
    /\ fs = f
    /\ abc_dirs = {}
    /\ pc = "get_asset_objs"
    /\ assets = <<>>
    /\ asset_i = 0
    /\ obj_files = <<>>
    /\ file_i = 0
    /\ scene = <<>>
    /\ imported = {}
    /\ hier_data = <<>>
    /\ todo = {}
    /\ model = Unbound
    /\ hier_split = <<>>
    /\ index = 0
    /\ root_par_node = Unbound
    /\ entry_scene = <<>>
    /\ entries_done = {}
    /\ reported = {}
    /\ calls = <<>>
    /\ abc_jobs = <<>>

\* The whole script, on a small obj directory.
Init == \E f \in ScriptFileSystems : InitWith(f)

Next ==
    \/ GetAssetObjsListdir
    \/ GetAssetObjsGlob
    \/ GetAssetObjsReturn
    \/ ImportAssetObj
    \/ RebuildLoad
    \/ RebuildNoHier
    \/ RebuildEntry
    \/ RebuildElem
    \/ RebuildModel
    \/ RebuildReturn
    \/ ExportAssetAbc
    \/ Finish

Spec == Init /\ [][Next]_vars

\* get_asset_objs alone, on every obj directory of the model.
InitObjs == \E f \in FileSystems : InitWith(f)

NextObjs ==
    \/ GetAssetObjsListdir
    \/ GetAssetObjsGlob
    \/ GetAssetObjsReturn

SpecObjs == InitObjs /\ [][NextObjs]_vars

-----------------------------------------------------------------------------
(* Properties of rebuild_asset_hierarchy.                                  *)

\* rebuild_asset_hierarchy has returned to the module loop.
Rebuilt == pc = "export"

\* The nodes named es[2..n] are each the child of the node named before.
ChainParented(s, es) ==
    \A i \in 2..Len(es) :
        /\ Exists(s, es[i])
        /\ s[es[i]].parent = es[i - 1]

\* C1: after rebuild_asset_hierarchy has processed a .hier mapping, for
\* every entry model -> '|e1|...|en' and every i in 2..n the node named e_i
\* has the node named e_(i-1) as its parent, whatever the other entries are
\* and in whatever order they were iterated.
C1_EveryChainParented ==
    Rebuilt =>
        \A m \in DOMAIN hier_data :
            ChainParented(scene, HierSplit(hier_data[m]))

\* rebuild_asset_hierarchy has ended, by returning or by raising.
RebuildEnded == pc \in {"export", "raised"}

\* C2: for every entry whose model node was in the scene when
\* rebuild_asset_hierarchy was called, after the call the model node's
\* parent is the node named by the last element of the entry's path
\* (stated for the entries whose try block the call has run).
C2_ModelUnderLastElement ==
    RebuildEnded =>
        \A m \in (entries_done \cup reported) \cap imported :
            LET es == HierSplit(hier_data[m])
            IN  scene[m].parent = es[Len(es)]

\* C3: the node rebuild_asset_hierarchy returns has no parent and is an
\* ancestor of every model node of the mapping that is in the scene.
C3_ReturnsTopRoot ==
    Rebuilt =>
        /\ scene[root_par_node].parent = World
        /\ \A m \in DOMAIN hier_data \cap DOMAIN scene :
               /\ m # root_par_node
               /\ IsAbove(scene, root_par_node, m, Cardinality(DOMAIN scene))

\* The current entry started without its model node in the scene, and no
\* element of its path has the model's name.
ModelMissing ==
    /\ model # Unbound
    /\ ~Exists(entry_scene, model)
    /\ \A i \in 1..Len(hier_split) : hier_split[i] # model

\* C8: when an entry's model node is not in the scene, the entry raises no
\* exception; once it is processed 'Model is missing!' has been printed,
\* the chain of its path is created and parented, and no node outside the
\* path has a new parent; the script goes on with the remaining entries.
C8_MissingModelIsSkipped ==
    ModelMissing =>
        /\ pc # "raised"
        /\ (pc = "entry" /\ model \in entries_done) =>
               /\ model \in reported
               /\ \A i \in 1..Len(hier_split) : Exists(scene, hier_split[i])
               /\ ChainParented(scene, hier_split)
               /\ \A n \in DOMAIN entry_scene :
                      (\A i \in 1..Len(hier_split) : hier_split[i] # n)
                          => scene[n].parent = entry_scene[n].parent

\* The node reaches the world in at most k steps up.
RECURSIVE ReachesWorld(_, _, _)
ReachesWorld(s, n, k) ==
    /\ n \in DOMAIN s
    /\ \/ s[n].parent = World
       \/ k > 0 /\ ReachesWorld(s, s[n].parent, k - 1)

-----------------------------------------------------------------------------
(* Properties of get_asset_objs.                                           *)

EndsWith(s, p) ==
    /\ Len(p) <= Len(s)
    /\ SubSeq(s, Len(s) - Len(p) + 1, Len(s)) = p

DotObj == <<".", "o", "b", "j">>

\* The .obj files directly in the directory of asset d, and directly in
\* its archives directory.
ObjFilesOfAsset(f, d) ==
    {PathJoin(PathJoin(obj_dir, d), n) :
        n \in {x \in f[d].objs : EndsWith(x, DotObj)}}
    \cup
    {PathJoin(PathJoin(PathJoin(obj_dir, d), Archives), n) :
        n \in {x \in f[d].archives : EndsWith(x, DotObj)}}

ObjFilesOf(f) == UNION {ObjFilesOfAsset(f, d) : d \in DOMAIN f}

\* The asset whose directory a path of the list is in.
AssetOf(p) == Split(SubSeq(p, Len(obj_dir) + 2, Len(p)), "/")[1]

\* C4: get_asset_objs returns every .obj file that is directly in an asset
\* directory or in its archives directory exactly once, and nothing else;
\* the files of one asset are contiguous and in ascending path order.
C4_ListsEveryObjOnce ==
    pc = "loop" =>
        /\ \A p \in ObjFilesOf(fs) :
               Cardinality({i \in 1..Len(obj_files) : obj_files[i] = p}) = 1
        /\ \A i \in 1..Len(obj_files) : obj_files[i] \in ObjFilesOf(fs)
        /\ \A i, j \in 1..Len(obj_files) :
               (i < j /\ AssetOf(obj_files[i]) = AssetOf(obj_files[j])) =>
                   /\ StrLess(obj_files[i], obj_files[j])
                   /\ \A k \in i..j :
                          AssetOf(obj_files[k]) = AssetOf(obj_files[i])

-----------------------------------------------------------------------------
(* Properties of the module loop.                                          *)

CallOrder == <<"import_asset_obj", "rebuild_asset_hierarchy",
               "export_asset_abc">>

\* C5: the obj files are processed one at a time in list order, each by
\* import_asset_obj, rebuild_asset_hierarchy and export_asset_abc in that
\* order, the export of a file before the import of the next; when no step
\* raises, every file of the list is exported exactly once.
C5_OneFileAtATime ==
    /\ \A k \in 1..Len(calls) :
           /\ calls[k].op = CallOrder[((k - 1) % 3) + 1]
           /\ calls[k].file = ((k - 1) \div 3) + 1
           /\ calls[k].file <= Len(obj_files)
           /\ calls[k].op = "import_asset_obj"
                  => calls[k].ret = obj_files[calls[k].file]
    /\ pc = "done" =>
           /\ Len(abc_jobs) = Len(obj_files)
           /\ \A i \in 1..Len(obj_files) :
                  /\ Cardinality({k \in 1..Len(calls) :
                                    /\ calls[k].op = "export_asset_abc"
                                    /\ calls[k].file = i}) = 1
                  /\ abc_jobs[i].file = AbcFile(obj_files[i])

\* C5 witness: the script has ended after processing two files.
C5_TwoFilesDone ==
    /\ pc = "done"
    /\ Len(obj_files) = 2
    /\ Len(calls) = 6

\* C6: at every step of rebuild_asset_hierarchy and export_asset_abc the
\* scene holds only nodes imported from or created for the current obj
\* file, and no parent link made while an earlier file was processed.
C6_SceneOfCurrentFileOnly ==
    pc \in {"rebuild", "entry", "elem", "export", "raised"} =>
        \A n \in DOMAIN scene :
            /\ scene[n].origin = file_i
            /\ scene[n].parent # World => scene[n].link = file_i
            /\ scene[n].parent # World => Exists(scene, scene[n].parent)

\* C6 witness: the second file is about to be exported, with a scene in
\* which a node has a parent.
C6_SecondFileRebuilt ==
    /\ pc = "export"
    /\ file_i = 2
    /\ \E n \in DOMAIN scene : scene[n].parent # World

\* The name after the last '|' of a full path.
LeafName(path) == LET es == Split(path, "|") IN es[Len(es)]

\* C7: every invocation of AbcExport has the same fixed flags; its -root
\* value is the full path of the node rebuild_asset_hierarchy returned for
\* the same obj file and its -file value is the path export_asset_abc
\* returns.
C7_FixedExportFlags ==
    /\ \A k \in 1..Len(abc_jobs) :
           /\ abc_jobs[k].flags =
                  <<"-frameRange 1 1", "-uvWrite", "-worldSpace",
                    "-writeUVSets", "-dataFormat ogawa", "-root ", "-file ">>
           /\ 3 * k <= Len(calls)
           /\ abc_jobs[k].file = calls[3 * k].ret
           /\ LeafName(abc_jobs[k].root) = calls[3 * k - 1].ret
           /\ abc_jobs[k].root[1] = "|"
    /\ (pc \in {"loop", "done"} /\ file_i >= 1) =>
           /\ Len(abc_jobs) = file_i
           /\ abc_jobs[file_i].root = FullPath(scene, calls[3 * file_i - 1].ret)

\* C7 witness: two invocations, the second with a root below another node.
C7_TwoExports ==
    /\ Len(abc_jobs) = 2
    /\ abc_jobs[1].file # abc_jobs[2].file
    /\ abc_jobs[1].root # abc_jobs[2].root
    /\ Len(abc_jobs[2].root) > 2

=============================================================================
